---------------------------- MODULE Spec2Model ----------------------------
(***************************************************************************)
(* A state-machine model of the TelegramMiniGame framework                 *)
(* (game-interface.js and its earlier copy game-interface_working.js):     *)
(* configuration parsing from the query string and the host bridge, the    *)
(* session state, the result payload and its relay to the host's sendData  *)
(* with the local-storage and alert fallbacks.                             *)
(*                                                                         *)
(* JavaScript values are modelled as tagged records of one shape           *)
(*   [t, n, d, s, o]                                                       *)
(* t: "undefined" "null" "nan" "num" "bool" "str" "obj" "arr";             *)
(* n/d: the number n/d with d a power of ten (booleans use n = 0/1);       *)
(* s: a string; o: the ordered <<key, value>> pairs of an object or the    *)
(* elements of an array.                                                   *)
(* Strings are [body, pad]: the characters of body followed by pad copies  *)
(* of the filler character "s", so that a string of several thousand       *)
(* characters has a small representation and an exact length.              *)
(***************************************************************************)
EXTENDS Integers, Sequences, FiniteSets, TLC

\* ------------------------------------------------------------------ bounds
MaxTicks == 1
MaxUpdates == 1
MaxEnds == 2
MaxMilestones == 1
MaxCloses == 1
MaxRecorded == 3
MaxListeners == 2
MaxTriggers == 2
LongPad == 5000
TickMs == 1200
PageLoadTime == 5000

\* --------------------------------------------------------------- constants
SizeLimit == 4096

\* ----------------------------------------------------------------- strings
DigitChars == <<"0", "1", "2", "3", "4", "5", "6", "7", "8", "9">>

Str(body) == [body |-> body, pad |-> 0]

EmptyStr == Str(<<>>)

StrLen(s) == Len(s.body) + s.pad

Concat(a, b) ==
    IF a.pad = 0 THEN [body |-> a.body \o b.body, pad |-> b.pad]
    ELSE [body |-> a.body, pad |-> a.pad + StrLen(b)]

IsDigit(c) == \E i \in 1..10 : DigitChars[i] = c

DigitVal(c) == (CHOOSE i \in 1..10 : DigitChars[i] = c) - 1

RECURSIVE IntToChars(_)
IntToChars(n) ==
    IF n < 0 THEN <<"-">> \o IntToChars(-n)
    ELSE IF n < 10 THEN <<DigitChars[n + 1]>>
    ELSE IntToChars(n \div 10) \o <<DigitChars[(n % 10) + 1]>>

RECURSIVE Pow10(_)
Pow10(k) == IF k = 0 THEN 1 ELSE 10 * Pow10(k - 1)

\* ------------------------------------------------------------------ values
JS(t, n, d, s, o) == [t |-> t, n |-> n, d |-> d, s |-> s, o |-> o]

Undef == JS("undefined", 0, 1, EmptyStr, <<>>)
Null == JS("null", 0, 1, EmptyStr, <<>>)
NaN == JS("nan", 0, 1, EmptyStr, <<>>)
Num(n) == JS("num", n, 1, EmptyStr, <<>>)
Bool(b) == JS("bool", IF b THEN 1 ELSE 0, 1, EmptyStr, <<>>)
StrV(s) == JS("str", 0, 1, s, <<>>)
Obj(pairs) == JS("obj", 0, 1, EmptyStr, pairs)
Arr(elems) == JS("arr", 0, 1, EmptyStr, elems)

RECURSIVE Frac(_, _)
Frac(n, d) ==
    IF d > 1 /\ n % 10 = 0 THEN Frac(n \div 10, d \div 10)
    ELSE JS("num", n, d, EmptyStr, <<>>)

Truthy(v) ==
    CASE v.t = "undefined" -> FALSE
      [] v.t = "null" -> FALSE
      [] v.t = "nan" -> FALSE
      [] v.t = "num" -> v.n # 0
      [] v.t = "bool" -> v.n = 1
      [] v.t = "str" -> StrLen(v.s) > 0
      [] OTHER -> TRUE

OrElse(a, b) == IF Truthy(a) THEN a ELSE b

Get(obj, key) ==
    IF \E i \in 1..Len(obj.o) : obj.o[i][1] = key
    THEN obj.o[CHOOSE i \in 1..Len(obj.o) : obj.o[i][1] = key][2]
    ELSE Undef

ToNumber(v) ==
    CASE v.t = "num" -> v
      [] v.t = "null" -> Num(0)
      [] v.t = "bool" -> Num(v.n)
      [] OTHER -> NaN

Floor(v) == IF v.t = "num" THEN Num(v.n \div v.d) ELSE NaN

Mul(a, b) ==
    IF a.t = "num" /\ b.t = "num" THEN Frac(a.n * b.n, a.d * b.d) ELSE NaN

Sub(a, b) ==
    IF a.t = "num" /\ b.t = "num" /\ a.d = 1 /\ b.d = 1 THEN Num(a.n - b.n)
    ELSE NaN

\* ------------------------------------------------ parseInt and parseFloat
\* (decimal input without a "0x" prefix or an exponent, which is all the
\* inputs of this model contain)
\* the first position at or after i that holds no space
SkipSpaces(b, i) ==
    CHOOSE k \in i..(Len(b) + 1) :
        /\ \A j \in i..(k - 1) : b[j] = " "
        /\ k <= Len(b) => b[k] # " "

\* the number of consecutive digits from position i
DigitRun(b, i) ==
    IF i > Len(b) THEN 0
    ELSE CHOOSE k \in 0..(Len(b) - i + 1) :
            /\ \A j \in i..(i + k - 1) : IsDigit(b[j])
            /\ i + k <= Len(b) => ~IsDigit(b[i + k])

RECURSIVE DigitsValue(_, _, _)
DigitsValue(b, i, k) ==
    IF k = 0 THEN 0
    ELSE DigitsValue(b, i, k - 1) * 10 + DigitVal(b[i + k - 1])

ParseInt(v) ==
    IF v.t # "str" THEN NaN
    ELSE LET b == v.s.body
             i0 == SkipSpaces(b, 1)
             signed == i0 <= Len(b) /\ b[i0] \in {"-", "+"}
             neg == signed /\ b[i0] = "-"
             i1 == IF signed THEN i0 + 1 ELSE i0
             k == DigitRun(b, i1)
         IN  IF k = 0 THEN NaN
             ELSE Num((IF neg THEN -1 ELSE 1) * DigitsValue(b, i1, k))

ParseFloat(v) ==
    IF v.t # "str" THEN NaN
    ELSE LET b == v.s.body
             i0 == SkipSpaces(b, 1)
             signed == i0 <= Len(b) /\ b[i0] \in {"-", "+"}
             neg == signed /\ b[i0] = "-"
             i1 == IF signed THEN i0 + 1 ELSE i0
             k == DigitRun(b, i1)
             dot == i1 + k <= Len(b) /\ b[i1 + k] = "."
             f == IF dot THEN DigitRun(b, i1 + k + 1) ELSE 0
             whole == DigitsValue(b, i1, k)
             part == DigitsValue(b, i1 + k + 1, f)
         IN  IF k = 0 /\ f = 0 THEN NaN
             ELSE Frac((IF neg THEN -1 ELSE 1) * (whole * Pow10(f) + part),
                       Pow10(f))

\* -------------------------------------------- JSON.stringify / JSON.parse
\* A JSON text is modelled by the value tree it denotes: stringify drops
\* undefined members, writes NaN and undefined array elements as null, and
\* the text's length is computed from the tree.
RECURSIVE Stringify(_)
Stringify(v) ==
    CASE v.t = "nan" -> Null
      [] v.t = "obj" ->
           LET kept == SelectSeq(v.o, LAMBDA p : p[2].t # "undefined")
           IN  Obj([i \in 1..Len(kept) |->
                       <<kept[i][1], Stringify(kept[i][2])>>])
      [] v.t = "arr" ->
           Arr([i \in 1..Len(v.o) |->
                   IF v.o[i].t = "undefined" THEN Null ELSE Stringify(v.o[i])])
      [] OTHER -> v


RECURSIVE Log10(_)
Log10(d) == IF d <= 1 THEN 0 ELSE 1 + Log10(d \div 10)

NumLen(v) ==
    LET a == IF v.n < 0 THEN -v.n ELSE v.n
    IN  (IF v.n < 0 THEN 1 ELSE 0) + Len(IntToChars(a \div v.d))
          + (IF v.d > 1 THEN 1 + Log10(v.d) ELSE 0)

\* characters that JSON writes as two: the line feed (the strings of this
\* program hold no quote or backslash)
EscapeCount(b) == Cardinality({i \in 1..Len(b) : b[i] = "\n"})

\* The members are summed by halving the range, which keeps the evaluation
\* shallow.
RECURSIVE JsonLen(_)
RECURSIVE MembersLen(_, _, _, _)
MembersLen(o, lo, hi, isObj) ==
    IF lo > hi THEN 0
    ELSE IF lo = hi
    THEN IF isObj THEN Len(o[lo][1]) + 3 + JsonLen(o[lo][2])
                  ELSE JsonLen(o[lo])
    ELSE LET mid == (lo + hi) \div 2
         IN  MembersLen(o, lo, mid, isObj) + MembersLen(o, mid + 1, hi, isObj)

Commas(o) == IF Len(o) > 1 THEN Len(o) - 1 ELSE 0

JsonLen(v) ==
    CASE v.t = "null" -> 4
      [] v.t = "bool" -> IF v.n = 1 THEN 4 ELSE 5
      [] v.t = "num" -> NumLen(v)
      [] v.t = "str" -> StrLen(v.s) + 2 + EscapeCount(v.s.body)
      [] v.t = "obj" -> 2 + MembersLen(v.o, 1, Len(v.o), TRUE) + Commas(v.o)
      [] v.t = "arr" -> 2 + MembersLen(v.o, 1, Len(v.o), FALSE) + Commas(v.o)
      [] OTHER -> 0

\* A string holding JSON (isJson) or plain characters: what sendData is
\* handed and what localStorage stores.
\* (The singleton-set binders of this module make TLC evaluate a value once.)
JsonText(v) ==
    CHOOSE text \in {[isJson |-> TRUE, tree |-> tree, len |-> JsonLen(tree)] :
                        tree \in {Stringify(v)}} : TRUE

PlainText(s) == [isJson |-> FALSE, tree |-> StrV(s), len |-> StrLen(s)]

JsonParse(text) == IF text.isJson THEN text.tree ELSE Undef

\* --------------------------------------------------------- string helpers
UpperChars == <<"A", "B", "C", "D", "E", "F", "G", "H", "I", "J", "K", "L", "M", "N", "O", "P", "Q", "R", "S", "T", "U", "V", "W", "X", "Y", "Z">>
LowerChars == <<"a", "b", "c", "d", "e", "f", "g", "h", "i", "j", "k", "l", "m", "n", "o", "p", "q", "r", "s", "t", "u", "v", "w", "x", "y", "z">>

ToLowerChar(c) ==
    IF \E i \in 1..26 : UpperChars[i] = c
    THEN LowerChars[CHOOSE i \in 1..26 : UpperChars[i] = c]
    ELSE c

ToLowerCase(s) ==
    [body |-> [i \in 1..Len(s.body) |-> ToLowerChar(s.body[i])], pad |-> s.pad]

\* the first position of c in b, or 0
IndexOf(b, c) ==
    IF \E i \in 1..Len(b) : b[i] = c
    THEN CHOOSE i \in 1..Len(b) : b[i] = c /\ \A j \in 1..(i - 1) : b[j] # c
    ELSE 0

\* s.split('-')[0]
SplitFirst(s) ==
    LET k == IndexOf(s.body, "-")
    IN  IF k = 0 THEN s ELSE Str(SubSeq(s.body, 1, k - 1))

\* String(v), as a template literal prints v
ToStr(v) ==
    CASE v.t = "str" -> v.s
      [] v.t = "num" ->
           IF v.d = 1 THEN Str(IntToChars(v.n))
           ELSE LET a == IF v.n < 0 THEN -v.n ELSE v.n
                    fr == IntToChars(Pow10(Log10(v.d)) + (a % v.d))
                IN  Str((IF v.n < 0 THEN <<"-">> ELSE <<>>)
                          \o IntToChars(a \div v.d) \o <<".">>
                          \o SubSeq(fr, 2, Len(fr)))
      [] v.t = "nan" -> Str(<<"N", "a", "N">>)
      [] v.t = "null" -> Str(<<"n", "u", "l", "l">>)
      [] v.t = "bool" -> IF v.n = 1 THEN Str(<<"t", "r", "u", "e">>) ELSE Str(<<"f", "a", "l", "s", "e">>)
      [] OTHER -> Str(<<"u", "n", "d", "e", "f", "i", "n", "e", "d">>)

\* new Date(ms).toISOString(): 24 characters that determine the instant
IsoLength == 24
ToISOString(ms) ==
    [body |-> IntToChars(ms), pad |-> IsoLength - Len(IntToChars(ms))]

\* ------------------------------------------------------------------ state
VARIABLES
    variant,      \* "current": game-interface.js, "working": game-interface_working.js,
                  \* "legacy": unnamed/part_000
    phase,        \* "loaded" (script run, no instance), "ready", "crashed"
    query,        \* window.location.search, as parameter -> value or Null
    gameConfig,   \* the constructor's argument
    host,         \* window.Telegram.WebApp: sendData present?, initDataUnsafe.user
    config,       \* this.config
    state,        \* this.state
    milestones,   \* this.milestones
    storage,      \* localStorage: set of [key, val]
    now,          \* Date.now()
    ticks,        \* clock steps taken
    tg,           \* calls received by the host bridge (for sendData: how
                  \* many, and the string of the most recent one)
    alerts,       \* alert() calls made by the framework
    timers,       \* pending setTimeout callbacks that close the host window
    ends,         \* number of end() calls so far
    lastEnd,      \* observation of the most recent end() call
    telegram,     \* window.Telegram: is it defined, what its WebApp is, and
                  \* whether it holds other members
    mockScript,   \* the telegram-web-app-mock.js script element: "none",
                  \* "tagged" (in the page's markup), "injected" (appended by
                  \* the framework's loader), "ran"
    translations, \* this.translations
    lastT,        \* observation of the most recent t(key, fallback) call
    fetches,      \* POST requests to /api/game-result still in flight
    mock          \* the mock's own state: its two buttons and their
                  \* elements in the document, its event registry and
                  \* theme, and what the last click and event ran

vars == <<variant, phase, query, gameConfig, host, config, state, milestones,
          storage, now, ticks, tg, alerts, timers, ends, lastEnd, telegram,
          mockScript, translations, lastT, fetches, mock>>

\* ----------------------------------------------------------------- inputs
C(chars) == StrV(Str(chars))

LongSessionId == StrV([body |-> <<"s">>, pad |-> LongPad])

ParamNames ==
    {"difficulty", "timeLimit", "timeModifier", "hints", "sessionId",
     "scoreModifier", "lang", "language", "gameId"}

NoQuery == [p \in ParamNames |-> Null]

\* URLSearchParams.has / .get
UrlHas(q, p) == q[p].t # "null"
UrlGet(q, p) == q[p]

MockUser1 ==
    Obj(<< <<"id", Num(123456789)>>, <<"language_code", C(<<"e", "n">>)>> >>)
UserPtBr ==
    Obj(<< <<"id", Num(42)>>,
           <<"language_code", C(<<"p", "t", "-", "B", "R">>)>> >>)
UserNoLang == Obj(<< <<"id", Num(7)>> >>)

HanoiConfig ==
    Obj(<< <<"gameId", C(<<"h", "a", "n", "o", "i">>)>>, <<"gameName", C(<<"T", "o", "w", "e", "r", " ", "o", "f", " ", "H", "a", "n", "o", "i">>)>> >>)
AnonymousConfig == Obj(<< <<"gameName", C(<<"T", "o", "w", "e", "r", " ", "o", "f", " ", "H", "a", "n", "o", "i">>)>> >>)

\* The query strings of the life-cycle specification.
Queries ==
    { NoQuery,
      [NoQuery EXCEPT !["sessionId"] = LongSessionId],
      [NoQuery EXCEPT !["sessionId"] = C(<<"s", "1">>),
                      !["difficulty"] = C(<<"7">>),
                      !["timeLimit"] = C(<<"6", "0">>),
                      !["timeModifier"] = C(<<"1", ".", "5">>),
                      !["scoreModifier"] = C(<<"0", ".", "5">>),
                      !["lang"] = C(<<"e", "n", "-", "U", "S">>),
                      !["gameId"] = C(<<"e", "v", "i", "l">>)] }

\* The query strings of the parsing specification: every combination.
ParseQueries ==
    { [difficulty |-> a, timeLimit |-> b, timeModifier |-> c, hints |-> d,
       sessionId |-> e, scoreModifier |-> f, lang |-> g, language |-> h,
       gameId |-> i] :
        a \in {Null, C(<<"2">>), C(<<"7">>), C(<<"a", "b", "c">>)},
        b \in {Null, C(<<"6", "0">>)},
        c \in {Null, C(<<"1", ".", "5">>)},
        d \in {Null, C(<<"5">>)},
        e \in {Null, C(<<>>), C(<<"s", "1">>)},
        f \in {Null, C(<<"0", ".", "5">>)},
        g \in {Null, C(<<"e", "n", "-", "U", "S">>), C(<<>>)},
        h \in {Null, C(<<"R", "U">>)},
        i \in {Null, C(<<"e", "v", "i", "l">>)} }

\* ------------------------------------------------------------ constructor
NoConfig ==
    [gameId |-> Undef, gameName |-> Undef, version |-> Undef,
     difficulty |-> Undef, timeLimit |-> Undef, timeModifier |-> Undef,
     hintsEnabled |-> Undef, hintsCount |-> Undef, soundEnabled |-> Undef,
     hapticsEnabled |-> Undef, scoreModifier |-> Undef,
     penaltyEnabled |-> Undef, sessionId |-> Undef, userId |-> Undef,
     language |-> Undef, custom |-> Undef]

DefaultConfig(gc) ==
    [gameId |-> Get(gc, "gameId"), gameName |-> Get(gc, "gameName"),
     version |-> C(<<"1", ".", "0", ".", "0">>),
     difficulty |-> Num(1), timeLimit |-> Null, timeModifier |-> Num(1),
     hintsEnabled |-> Bool(TRUE), hintsCount |-> Num(3),
     soundEnabled |-> Bool(TRUE), hapticsEnabled |-> Bool(TRUE),
     scoreModifier |-> Num(1), penaltyEnabled |-> Bool(TRUE),
     sessionId |-> Null, userId |-> Null,
     language |-> C(<<"e", "n">>),
     custom |-> OrElse(Get(gc, "custom"), Obj(<<>>))]

NoState ==
    [status |-> "none", score |-> 0, moves |-> 0, mistakes |-> 0,
     hintsUsed |-> 0, startTime |-> Null, endTime |-> Null, timeElapsed |-> 0]

InitialState == [NoState EXCEPT !.status = "idle"]

\* if (urlParams.has(p)) this.config[field] = val
WithParam(c, q, p, field, val) ==
    IF UrlHas(q, p) THEN [c EXCEPT ![field] = val] ELSE c

\* the numeric overrides with the hints parameter stored in difficulty (a
\* copy-and-paste slip in the hints line)
UrlOverrides_hintsIntoDifficulty(cfg, q) ==
    WithParam(
      WithParam(
        WithParam(
          WithParam(
            WithParam(
              WithParam(cfg, q, "difficulty", "difficulty",
                        ParseInt(UrlGet(q, "difficulty"))),
              q, "timeLimit", "timeLimit", ParseInt(UrlGet(q, "timeLimit"))),
            q, "timeModifier", "timeModifier",
            ParseFloat(UrlGet(q, "timeModifier"))),
          q, "hints", "difficulty", ParseInt(UrlGet(q, "hints"))),
        q, "sessionId", "sessionId", UrlGet(q, "sessionId")),
      q, "scoreModifier", "scoreModifier",
      ParseFloat(UrlGet(q, "scoreModifier")))

\* the overrides of difficulty, timeLimit, timeModifier, hints, sessionId
\* and scoreModifier, in the order of the code
UrlOverrides(cfg, q) ==
    WithParam(
      WithParam(
        WithParam(
          WithParam(
            WithParam(
              WithParam(cfg, q, "difficulty", "difficulty",
                        ParseInt(UrlGet(q, "difficulty"))),
              q, "timeLimit", "timeLimit", ParseInt(UrlGet(q, "timeLimit"))),
            q, "timeModifier", "timeModifier",
            ParseFloat(UrlGet(q, "timeModifier"))),
          q, "hints", "hintsCount", ParseInt(UrlGet(q, "hints"))),
        q, "sessionId", "sessionId", UrlGet(q, "sessionId")),
      q, "scoreModifier", "scoreModifier",
      ParseFloat(UrlGet(q, "scoreModifier")))

HasLang(q) == UrlHas(q, "lang") \/ UrlHas(q, "language")

\* the language parameter: urlParams.get('lang') || urlParams.get('language')
LanguageParam(c, q) ==
    IF HasLang(q)
    THEN [c EXCEPT !.language =
                      OrElse(UrlGet(q, "lang"), UrlGet(q, "language"))]
    ELSE c

\* the host's user: its id, and its language_code when the query names no
\* language
TelegramUser(c, q, h) ==
    IF Truthy(h.user)
    THEN [c EXCEPT
            !.userId = Get(h.user, "id"),
            !.language =
                IF ~HasLang(q)
                THEN OrElse(Get(h.user, "language_code"), C(<<"e", "n">>))
                ELSE @]
    ELSE c

\* language.split('-')[0].toLowerCase(); it throws when language is not a
\* string
NormalizeLanguage(c) ==
    IF c.language.t # "str"
    THEN [config |-> c, threw |-> TRUE]
    ELSE [config |-> [c EXCEPT !.language = StrV(ToLowerCase(SplitFirst(@.s)))],
          threw |-> FALSE]

\* timeLimit = Math.floor(timeLimit * timeModifier) when timeLimit is truthy
ApplyTimeModifier(p) ==
    IF ~p.threw /\ Truthy(p.config.timeLimit)
    THEN [p EXCEPT !.config.timeLimit = Floor(Mul(@, p.config.timeModifier))]
    ELSE p

\* parseInputParams: the configuration it leaves behind, and whether it threw
ParseInputParams(cfg, q, h) ==
    CHOOSE parsed \in
        {ApplyTimeModifier(p) :
            p \in {NormalizeLanguage(
                      TelegramUser(LanguageParam(UrlOverrides(cfg, q), q),
                                   q, h))}} : TRUE

\* initTelegram: ready(), expand(), BackButton.onClick, onEvent('themeChanged')
NoCalls ==
    [ready |-> FALSE, expanded |-> FALSE, backHandlers |-> 0,
     themeHandlers |-> 0, sendCount |-> 0, lastData |-> PlainText(EmptyStr),
     closes |-> 0, timerCloses |-> 0]

InitTelegram(t) ==
    [t EXCEPT !.ready = TRUE, !.expanded = TRUE,
              !.backHandlers = @ + 1, !.themeHandlers = @ + 1]

NoEnd ==
    [called |-> FALSE, success |-> FALSE, threw |-> FALSE, ret |-> Undef,
     path |-> "none", sent |-> 0, alerted |-> 0, written |-> {},
     scheduled |-> 0, sendThrew |-> FALSE]

\* ------------------------------------------------------- mock: its buttons
\* A button object of the mock (BackButton, MainButton): its members, and
\* elements, the number of its button elements in the document. BackButton
\* has no isActive, isProgressVisible or text of its own; they stay as
\* they start. others: further members Object.assign has given it.
NoButton ==
    [isVisible |-> FALSE, isActive |-> TRUE, isProgressVisible |-> FALSE,
     text |-> "CONTINUE", _callback |-> "null", _button |-> FALSE,
     elements |-> 0, others |-> {}]

\* _removeButton
removeButton(b) ==
    IF b._button THEN [b EXCEPT !._button = FALSE, !.elements = @ - 1]
    ELSE b

\* the element is created when there is none
createButton(b) ==
    IF ~b._button THEN [b EXCEPT !._button = TRUE, !.elements = @ + 1]
    ELSE b

\* BackButton._render
BackRender(b) == createButton(b)

\* a MainButton._render that leaves the element of a hidden button
MainRender_noRemove(b) ==
    IF ~b.isVisible THEN b ELSE createButton(b)

\* MainButton._render
MainRender(b) ==
    IF ~b.isVisible THEN removeButton(b) ELSE createButton(b)

render(name, b) ==
    IF name = "BackButton" THEN BackRender(b) ELSE MainRender(b)

\* show(), hide()
ButtonShow(name, b) == render(name, [b EXCEPT !.isVisible = TRUE])
ButtonHide(b) == removeButton([b EXCEPT !.isVisible = FALSE])

\* onClick(callback): BackButton also shows itself
ButtonOnClick(name, b, callback) ==
    IF name = "BackButton"
    THEN ButtonShow(name, [b EXCEPT !._callback = callback])
    ELSE [b EXCEPT !._callback = callback]

\* offClick(callback): the argument is not looked at
ButtonOffClick(b, callback) == [b EXCEPT !._callback = "null"]

\* the element's onclick: the callback it runs, "none" when it runs none
ButtonClicked(name, b) ==
    IF name = "BackButton"
    THEN IF b._callback # "null" THEN b._callback ELSE "none"
    ELSE IF b.isActive /\ b._callback # "null" THEN b._callback ELSE "none"

\* Object.assign(this, params) for the members a caller passes to
\* setParams: the mock's own names and the names of the Telegram API
ButtonParams ==
    {<<"text", "PLAY">>, <<"isVisible", TRUE>>, <<"isVisible", FALSE>>,
     <<"isActive", FALSE>>, <<"is_visible", TRUE>>, <<"is_active", FALSE>>}

ButtonAssign(b, param) ==
    IF param[1] \in {"text", "isVisible", "isActive"}
    THEN [b EXCEPT ![param[1]] = param[2]]
    ELSE [b EXCEPT !.others = @ \cup {param[1]}]

\* ------------------------------------------------- mock: its event registry
EventTypes == {"themeChanged", "viewportChanged"}
NoEvents == [type \in EventTypes |-> <<>>]

\* no event triggered yet
NoEvent == [type |-> "none", calls |-> <<>>, seen |-> "none"]

\* the mock before any call: light theme, no listener (its _events is
\* created by the first onEvent)
NoMock ==
    [BackButton |-> NoButton, MainButton |-> NoButton,
     lastClick |-> <<"none", "none">>,
     events |-> NoEvents, colorScheme |-> "light", lastEvent |-> NoEvent,
     triggered |-> 0]

\* onEvent(eventType, callback)
MockOnEvent(m, eventType, callback) ==
    [m EXCEPT !.events[eventType] = Append(@, callback)]

\* offEvent(eventType, callback): filter(cb => cb !== callback)
MockOffEvent(m, eventType, callback) ==
    [m EXCEPT !.events[eventType] = SelectSeq(@, LAMBDA cb : cb # callback)]

\* _triggerEvent(eventType): forEach over the listeners of the type; each
\* listener that looks at the theme, as handleThemeChange does, sees the
\* mock's themeParams of that moment
MockTriggerEvent(m, eventType) ==
    [m EXCEPT !.lastEvent = [type |-> eventType, calls |-> m.events[eventType],
                             seen |-> m.colorScheme],
              !.triggered = @ + 1]

\* initTelegram against the mock: BackButton.onClick(() => handleExit())
\* and onEvent('themeChanged', () => handleThemeChange())
MockInitTelegram(m) ==
    MockOnEvent([m EXCEPT !.BackButton =
                    ButtonOnClick("BackButton", @, "handleExit")],
                "themeChanged", "handleThemeChange")

\* new TelegramMiniGame(gameConfig). Without window.Telegram.WebApp the
\* constructor throws when it reads the bridge (this.tg = window.Telegram.WebApp
\* or this.tg.ready()), after it has assigned config, state and milestones.
Construct ==
    /\ phase = "loaded"
    /\ IF telegram.webApp = "absent"
       THEN /\ config' = DefaultConfig(gameConfig)
            /\ phase' = "crashed"
            /\ tg' = tg
       ELSE /\ LET parsed ==
                       ParseInputParams(DefaultConfig(gameConfig), query, host)
               IN  /\ config' = parsed.config
                   /\ phase' = IF parsed.threw THEN "crashed" ELSE "ready"
            /\ tg' = InitTelegram(tg)
    /\ state' = InitialState
    /\ milestones' = <<>>
    /\ mock' = IF telegram.webApp = "mock" THEN MockInitTelegram(mock)
               ELSE mock
    /\ UNCHANGED <<telegram, mockScript, translations, lastT, fetches,
                   variant, query, gameConfig, host, storage, now, ticks,
                   alerts, timers, ends, lastEnd>>

\* ----------------------------------------------------------------- result
\* Emoji are written one element per UTF-16 code unit, as String.length
\* counts them.
Party == <<"U+D83C", "U+DF89">>
Pensive == <<"U+D83D", "U+DE14">>
BarChart == <<"U+D83D", "U+DCCA">>
Star == <<"U+2B50">>
Target == <<"U+D83C", "U+DFAF">>
Cross == <<"U+274C">>
Stopwatch == <<"U+23F1", "U+FE0F">>
Bulb == <<"U+D83D", "U+DCA1">>

difficultyNames == <<C(<<"E", "a", "s", "y">>), C(<<"M", "e", "d", "i", "u", "m">>), C(<<"H", "a", "r", "d">>), C(<<"E", "x", "p", "e", "r", "t">>)>>

\* difficultyNames[this.config.difficulty - 1]
DifficultyName(d) ==
    IF d.t = "num" /\ d.d = 1 /\ d.n \in 1..Len(difficultyNames)
    THEN difficultyNames[d.n]
    ELSE Undef

formatTime(seconds) ==
    LET mins == seconds \div 60
        secs == seconds % 60
    IN  IF mins > 0
        THEN Str(IntToChars(mins) \o <<"m", " ">> \o IntToChars(secs) \o <<"s">>)
        ELSE Str(IntToChars(secs) \o <<"s">>)

RECURSIVE ConcatRange(_, _, _)
ConcatRange(parts, lo, hi) ==
    IF lo > hi THEN EmptyStr
    ELSE IF lo = hi THEN parts[lo]
    ELSE LET mid == (lo + hi) \div 2
         IN  Concat(ConcatRange(parts, lo, mid), ConcatRange(parts, mid + 1, hi))

ConcatAll(parts) == ConcatRange(parts, 1, Len(parts))

generateOutputString(cfg, st, success) ==
    ConcatAll(<<
        Str(IF success THEN Party ELSE Pensive), Str(<<" ">>),
        ToStr(cfg.gameName), Str(<<" ", "-", " ">>),
        Str(IF success THEN <<"C", "o", "m", "p", "l", "e", "t", "e", "d">> ELSE <<"F", "a", "i", "l", "e", "d">>), Str(<<"\n">>),
        Str(BarChart \o <<" ", "D", "i", "f", "f", "i", "c", "u", "l", "t", "y", ":", " ">>), ToStr(DifficultyName(cfg.difficulty)),
        Str(<<"\n">>),
        Str(Star \o <<" ", "S", "c", "o", "r", "e", ":", " ">>), Str(IntToChars(st.score)), Str(<<"\n">>),
        Str(Target \o <<" ", "M", "o", "v", "e", "s", ":", " ">>), Str(IntToChars(st.moves)), Str(<<"\n">>),
        IF st.mistakes > 0
        THEN Str(Cross \o <<" ", "M", "i", "s", "t", "a", "k", "e", "s", ":", " ">> \o IntToChars(st.mistakes) \o <<"\n">>)
        ELSE EmptyStr,
        IF st.timeElapsed # 0
        THEN ConcatAll(<<Str(Stopwatch \o <<" ", "T", "i", "m", "e", ":", " ">>), formatTime(st.timeElapsed),
                         Str(<<"\n">>)>>)
        ELSE EmptyStr,
        IF st.hintsUsed > 0
        THEN Str(Bulb \o <<" ", "H", "i", "n", "t", "s", " ", "u", "s", "e", "d", ":", " ">> \o IntToChars(st.hintsUsed) \o <<"\n">>)
        ELSE EmptyStr >>)

getRating(performance) ==
    IF performance >= 95 THEN C(<<"S">>)
    ELSE IF performance >= 85 THEN C(<<"A">>)
    ELSE IF performance >= 75 THEN C(<<"B">>)
    ELSE IF performance >= 60 THEN C(<<"C">>)
    ELSE IF performance >= 40 THEN C(<<"D">>)
    ELSE C(<<"F">>)

\* getOptimalScore() of the base class returns null
Performance == 100

\* getMilestonesSummary reading lastMilestone one place past the end
getMilestonesSummary_pastEnd(ms) ==
    IF Len(ms) = 0 THEN Null
    ELSE Obj(<< <<"count", Num(Len(ms))>>,
                <<"milestones", Arr(ms)>>,
                <<"firstMilestone", ms[1]>>,
                <<"lastMilestone", Undef>> >>)

getMilestonesSummary(ms) ==
    IF Len(ms) = 0 THEN Null
    ELSE Obj(<< <<"count", Num(Len(ms))>>,
                <<"milestones", Arr(ms)>>,
                <<"firstMilestone", ms[1]>>,
                <<"lastMilestone", ms[Len(ms)]>> >>)

StatusText(status) ==
    CASE status = "completed" -> C(<<"c", "o", "m", "p", "l", "e", "t", "e", "d">>)
      [] status = "failed" -> C(<<"f", "a", "i", "l", "e", "d">>)
      [] status = "playing" -> C(<<"p", "l", "a", "y", "i", "n", "g">>)
      [] status = "paused" -> C(<<"p", "a", "u", "s", "e", "d">>)
      [] OTHER -> C(<<"i", "d", "l", "e">>)

generateResult(cfg, st, ms, t, success) ==
    Obj(<<
        <<"sessionId", cfg.sessionId>>,
        <<"gameId", cfg.gameId>>,
        <<"gameName", cfg.gameName>>,
        <<"userId", cfg.userId>>,
        <<"timestamp", StrV(ToISOString(t))>>,
        <<"success", Bool(success)>>,
        <<"status", StatusText(st.status)>>,
        <<"score", Num(st.score)>>,
        <<"finalScore", Floor(Mul(Num(st.score), cfg.scoreModifier))>>,
        <<"moves", Num(st.moves)>>,
        <<"mistakes", Num(st.mistakes)>>,
        <<"hintsUsed", Num(st.hintsUsed)>>,
        <<"timeElapsed", Num(st.timeElapsed)>>,
        <<"timeLimit", cfg.timeLimit>>,
        <<"timeRemaining",
          IF Truthy(cfg.timeLimit)
          THEN Sub(cfg.timeLimit, Num(st.timeElapsed)) ELSE Null>>,
        <<"performance", Num(Performance)>>,
        <<"rating", getRating(Performance)>>,
        <<"difficulty", cfg.difficulty>>,
        <<"language", cfg.language>>,
        <<"modifiers",
          Obj(<< <<"timeModifier", cfg.timeModifier>>,
                 <<"scoreModifier", cfg.scoreModifier>>,
                 <<"hintsEnabled", cfg.hintsEnabled>> >>)>>,
        <<"optimal", Bool(FALSE)>>,
        <<"achievements", Arr(<<>>)>>,
        <<"milestones", getMilestonesSummary(ms)>>,
        <<"gameData", Obj(<<>>)>>,
        <<"outputString", StrV(generateOutputString(cfg, st, success))>> >>)

\* ------------------------------------------------------------ localStorage
SetItem(st, key, val) ==
    {e \in st : e.key # key} \cup {[key |-> key, val |-> val]}

HasItem(st, key) == \E e \in st : e.key = key

GetItem(st, key) == (CHOOSE e \in st : e.key = key).val

LatestKey == Str(<<"g", "a", "m", "e", "_", "r", "e", "s", "u", "l", "t", "_", "l", "a", "t", "e", "s", "t">>)
LastSendTimeKey == Str(<<"l", "a", "s", "t", "_", "s", "e", "n", "d", "_", "t", "i", "m", "e">>)
ResultKey(sessionId) == Concat(Str(<<"g", "a", "m", "e", "_", "r", "e", "s", "u", "l", "t", "_">>), ToStr(sessionId))
ErrorKey(t) == Str(<<"g", "a", "m", "e", "_", "r", "e", "s", "u", "l", "t", "_", "e", "r", "r", "o", "r", "_">> \o IntToChars(t))

\* ------------------------------------------------------ development helper
\* a helper that reads the time of the last send instead of the result
inspectLastResult_sendTime(st) ==
    IF HasItem(st, LastSendTimeKey) /\ GetItem(st, LastSendTimeKey).len > 0
    THEN LET result == GetItem(st, LastSendTimeKey)
         IN  IF result.isJson THEN JsonParse(result) ELSE result.tree
    ELSE Null

\* window.inspectLastResult(): the parsed game_result_latest item, the raw
\* string when it does not parse, null when the item is missing or empty
inspectLastResult(st) ==
    IF HasItem(st, LatestKey) /\ GetItem(st, LatestKey).len > 0
    THEN LET result == GetItem(st, LatestKey)
         IN  IF result.isJson THEN JsonParse(result) ELSE result.tree
    ELSE Null

LastTelegramDataKey == Str(<<"l", "a", "s", "t", "_", "t", "e", "l", "e", "g", "r", "a", "m", "_", "s", "e", "n", "d", "D", "a", "t", "a">>)
MockUserKey == Str(<<"m", "o", "c", "k", "_", "t", "e", "l", "e", "g", "r", "a", "m", "_", "u", "s", "e", "r">>)

\* window.inspectTelegramData(): the parsed last_telegram_sendData item,
\* the raw string when it does not parse, null when it is missing or empty
inspectTelegramData(st) ==
    IF HasItem(st, LastTelegramDataKey)
       /\ GetItem(st, LastTelegramDataKey).len > 0
    THEN LET data == GetItem(st, LastTelegramDataKey)
         IN  IF data.isJson THEN JsonParse(data) ELSE data.tree
    ELSE Null

\* String.prototype.includes on the written-out characters of a key
Includes(s, sub) ==
    \E i \in 1..(Len(s.body) - Len(sub) + 1) :
        SubSeq(s.body, i, i + Len(sub) - 1) = sub

\* the filter of clearGameData
IsGameKey(k) ==
    \/ Includes(k, <<"g", "a", "m", "e", "_", "r", "e", "s", "u", "l", "t">>)
    \/ Includes(k, <<"t", "e", "l", "e", "g", "r", "a", "m", "_", "s", "e", "n", "d", "D", "a", "t", "a">>)
    \/ Includes(k, <<"m", "o", "c", "k", "_", "t", "e", "l", "e", "g", "r", "a", "m">>)

\* -------------------------------------------------------------- sendResult
ConstAssignMessage == C(<<"A", "s", "s", "i", "g", "n", "m", "e", "n", "t", " ", "t", "o", " ", "c", "o", "n", "s", "t", "a", "n", "t", " ", "v", "a", "r", "i", "a", "b", "l", "e", ".">>)
HostErrorMessage == C(<<"W", "e", "b", "A", "p", "p", "D", "a", "t", "a", "I", "n", "v", "a", "l", "i", "d">>)

compactResult(result) ==
    Obj(<<
        <<"sessionId", Get(result, "sessionId")>>,
        <<"gameId", Get(result, "gameId")>>,
        <<"gameName", Get(result, "gameName")>>,
        <<"userId", Get(result, "userId")>>,
        <<"timestamp", Get(result, "timestamp")>>,
        <<"success", Get(result, "success")>>,
        <<"status", Get(result, "status")>>,
        <<"score", Get(result, "score")>>,
        <<"finalScore", Get(result, "finalScore")>>,
        <<"moves", Get(result, "moves")>>,
        <<"mistakes", Get(result, "mistakes")>>,
        <<"hintsUsed", Get(result, "hintsUsed")>>,
        <<"timeElapsed", Get(result, "timeElapsed")>>,
        <<"timeLimit", Get(result, "timeLimit")>>,
        <<"timeRemaining", Get(result, "timeRemaining")>>,
        <<"performance", Get(result, "performance")>>,
        <<"rating", Get(result, "rating")>>,
        <<"difficulty", Get(result, "difficulty")>>,
        <<"language", Get(result, "language")>>,
        <<"optimal", Get(result, "optimal")>>,
        <<"achievements", OrElse(Get(result, "achievements"), Arr(<<>>))>>,
        <<"milestoneCount",
          OrElse(Get(Get(result, "milestones"), "count"), Num(0))>> >>)

ultraCompact(result) ==
    Obj(<<
        <<"sessionId", Get(result, "sessionId")>>,
        <<"gameId", Get(result, "gameId")>>,
        <<"userId", Get(result, "userId")>>,
        <<"success", Get(result, "success")>>,
        <<"score", Get(result, "score")>>,
        <<"moves", Get(result, "moves")>>,
        <<"timeElapsed", Get(result, "timeElapsed")>>,
        <<"rating", Get(result, "rating")>>,
        <<"difficulty", Get(result, "difficulty")>> >>)

\* What one run of sendResult does: the strings handed to tg.sendData, the
\* storage it leaves and the keys it wrote, the alerts it shows, the close
\* timers it schedules, whether an exception leaves it, whether sendData
\* threw, and the branch it took.
Effect(path, sent, st, wrote, nAlerts, nTimers, threw, sendThrew) ==
    [path |-> path, sent |-> sent, storage |-> st, wrote |-> wrote,
     alerts |-> nAlerts, scheduled |-> nTimers, threw |-> threw,
     sendThrew |-> sendThrew]

\* the object the catch block stores
ErrorRecord(v, result, message) ==
    Obj(<< <<"error", message>>,
           <<"result",
             IF v = "current"
             THEN Obj(<< <<"sessionId", Get(result, "sessionId")>>,
                         <<"gameId", Get(result, "gameId")>>,
                         <<"score", Get(result, "score")>> >>)
             ELSE result>> >>)

\* a catch block that stores the record and throws the error again
CatchBlock_rethrow(v, result, sent, st, wrote, t, message, sendThrew) ==
    Effect("error", sent,
           SetItem(st, ErrorKey(t), JsonText(ErrorRecord(v, result, message))),
           wrote \cup {ErrorKey(t)}, 0, 0, TRUE, sendThrew)

\* the catch block: sent, st and wrote are what the try block did before
\* the exception
CatchBlock(v, result, sent, st, wrote, t, message, sendThrew) ==
    Effect("error", sent,
           SetItem(st, ErrorKey(t), JsonText(ErrorRecord(v, result, message))),
           wrote \cup {ErrorKey(t)}, 1, 0, FALSE, sendThrew)

\* the size check as it would be with a reassignable resultString: the
\* ultra-compact payload replaces the oversized one
SizeChecked_reassigned(v, result) ==
    IF v = "current"
    THEN CHOOSE checked \in
             {[threw |-> FALSE,
               text |-> IF text.len > SizeLimit
                        THEN JsonText(ultraCompact(result)) ELSE text] :
                 text \in {JsonText(compactResult(result))}} : TRUE
    ELSE [threw |-> FALSE, text |-> JsonText(result)]

\* the resultString after the size check: in game-interface.js the
\* oversized branch assigns to the const resultString, which throws a
\* TypeError; game-interface_working.js only warns
SizeChecked(v, result) ==
    IF v = "current"
    THEN CHOOSE checked \in {[threw |-> text.len > SizeLimit, text |-> text] :
                                text \in {JsonText(compactResult(result))}} :
             TRUE
    ELSE [threw |-> FALSE, text |-> JsonText(result)]

\* the try block with a fallback branch that stores nothing and shows no
\* alert when the bridge has no sendData
Deliver_silentFallback(v, cfg, h, result, resultString, st, t, sendThrows) ==
    IF h.sendData = "function"
    THEN LET saved ==
                 IF v = "current"
                 THEN SetItem(SetItem(st, LatestKey, resultString),
                              LastSendTimeKey, PlainText(ToISOString(t)))
                 ELSE st
             wrote == IF v = "current" THEN {LatestKey, LastSendTimeKey}
                      ELSE {}
         IN  IF sendThrows
             THEN CatchBlock(v, result, <<resultString>>, saved, wrote, t,
                             HostErrorMessage, TRUE)
             ELSE Effect("sent", <<resultString>>, saved, wrote, 0,
                         IF v = "working" THEN 1 ELSE 0, FALSE, FALSE)
    ELSE Effect("fallback", <<>>, st, {}, 0, 0, FALSE, FALSE)

\* the try block after the size check, for the resultString it is left with
Deliver(v, cfg, h, result, resultString, st, t, sendThrows) ==
    IF h.sendData = "function"
    THEN LET saved ==
                 IF v = "current"
                 THEN SetItem(SetItem(st, LatestKey, resultString),
                              LastSendTimeKey, PlainText(ToISOString(t)))
                 ELSE st
             wrote == IF v = "current" THEN {LatestKey, LastSendTimeKey}
                      ELSE {}
         IN  IF sendThrows
             THEN CatchBlock(v, result, <<resultString>>, saved, wrote, t,
                             HostErrorMessage, TRUE)
             ELSE Effect("sent", <<resultString>>, saved, wrote, 0,
                         IF v = "working" THEN 1 ELSE 0, FALSE, FALSE)
    ELSE Effect("fallback", <<>>,
                SetItem(SetItem(st, ResultKey(cfg.sessionId), resultString),
                        LatestKey, resultString),
                {ResultKey(cfg.sessionId), LatestKey}, 1, 0, FALSE, FALSE)

\* sendResult of part_000: sendData in a try block, the POST when there
\* is a sessionId (counted by Posted), the localStorage copy, sendData in
\* a try block again. A missing sendData is a TypeError the try blocks
\* catch. It schedules no close itself: the handlers of the POST do.
sendResultLegacy(cfg, h, result, st, sendThrows) ==
    CHOOSE effect \in
        {Effect("legacy",
                IF h.sendData = "function" THEN <<text, text>> ELSE <<>>,
                SetItem(st, ResultKey(cfg.sessionId), text),
                {ResultKey(cfg.sessionId)}, 0, 0, FALSE,
                h.sendData = "function" /\ sendThrows) :
            text \in {JsonText(result)}} : TRUE

sendResult(v, cfg, h, result, st, t, sendThrows) ==
    IF v = "legacy" THEN sendResultLegacy(cfg, h, result, st, sendThrows)
    ELSE IF ~Truthy(Get(result, "sessionId")) \/ ~Truthy(Get(result, "gameId"))
    THEN Effect("invalid", <<>>, st, {}, 0, 0, FALSE, FALSE)
    ELSE CHOOSE effect \in
             {IF checked.threw
              THEN CatchBlock(v, result, <<>>, st, {}, t, ConstAssignMessage,
                              FALSE)
              ELSE Deliver(v, cfg, h, result, checked.text, st, t, sendThrows) :
                 checked \in {SizeChecked(v, result)}} : TRUE

\* ------------------------------------------------------------- operations
\* the alerts of the mock's sendData, which shows the data it is given
MockAlerts(tgm, eff) ==
    IF tgm.webApp = "mock" /\ ~eff.sendThrew THEN Len(eff.sent) ELSE 0

\* start() with a status the enumeration does not hold
start_running ==
    /\ phase = "ready"
    /\ state' = [state EXCEPT !.status = "running", !.startTime = Num(now)]
    /\ UNCHANGED <<mock, telegram, mockScript, translations, lastT, fetches,
                   variant, phase, query, gameConfig, host, config,
                   milestones, storage, now, ticks, tg, alerts, timers, ends,
                   lastEnd>>

\* (sendEvent, which start and recordMilestone call, posts a message to the
\* parent window and writes to the console; it changes nothing of the page.)
start ==
    /\ phase = "ready"
    /\ state' = [state EXCEPT !.status = "playing", !.startTime = Num(now)]
    /\ UNCHANGED <<mock, telegram, mockScript, translations, lastT, fetches,
                   variant, phase, query, gameConfig, host, config,
                   milestones, storage, now, ticks, tg, alerts, timers, ends,
                   lastEnd>>

\* The game (a subclass) updates the counters of this.state while it runs.
GameUpdate ==
    /\ phase = "ready"
    /\ state.status = "playing"
    /\ \E f \in {"score", "moves", "mistakes", "hintsUsed"} :
          /\ state.score + state.moves + state.mistakes + state.hintsUsed
                < MaxUpdates
          /\ state' = [state EXCEPT ![f] = @ + 1]
    /\ UNCHANGED <<mock, telegram, mockScript, translations, lastT, fetches,
                   variant, phase, query, gameConfig, host, config,
                   milestones, storage, now, ticks, tg, alerts, timers, ends,
                   lastEnd>>

MilestoneNames == {C(<<"f", "i", "r", "s", "t", "_", "m", "o", "v", "e">>)}

Milestone(name, st, t) ==
    Obj(<< <<"name", name>>,
           <<"timestamp", Num(t)>>,
           <<"gameTime",
             IF Truthy(st.startTime)
             THEN Num((t - st.startTime.n) \div 1000) ELSE Num(0)>>,
           <<"state",
             Obj(<< <<"score", Num(st.score)>>, <<"moves", Num(st.moves)>>,
                    <<"mistakes", Num(st.mistakes)>>,
                    <<"hintsUsed", Num(st.hintsUsed)>> >>)>>,
           <<"gameData", Obj(<<>>)>>,
           <<"metadata", Obj(<<>>)>> >>)

\* recordMilestone with unshift in place of push
RecordMilestone_unshift(limit) ==
    /\ phase = "ready"
    /\ state.status = "playing"
    /\ Len(milestones) < limit
    /\ \E name \in MilestoneNames :
          milestones' = <<Milestone(name, state, now)>> \o milestones
    /\ UNCHANGED <<mock, telegram, mockScript, translations, lastT, fetches,
                   variant, phase, query, gameConfig, host, config, state,
                   storage, now, ticks, tg, alerts, timers, ends, lastEnd>>

\* recordMilestone (called by the game while it runs), for at most limit
\* milestones
RecordMilestone(limit) ==
    /\ phase = "ready"
    /\ state.status = "playing"
    /\ Len(milestones) < limit
    /\ \E name \in MilestoneNames :
          milestones' = Append(milestones, Milestone(name, state, now))
    /\ UNCHANGED <<mock, telegram, mockScript, translations, lastT, fetches,
                   variant, phase, query, gameConfig, host, config, state,
                   storage, now, ticks, tg, alerts, timers, ends, lastEnd>>

recordMilestone == RecordMilestone(MaxMilestones)

\* the same operation in the specification that follows a longer list
recordMilestones == RecordMilestone(MaxRecorded)

\* the POST requests one sendResult call starts: the sendResult of
\* src/unnamed/part_000 posts the result when config.sessionId is truthy
Posted(v, cfg) == IF v = "legacy" /\ Truthy(cfg.sessionId) THEN 1 ELSE 0

\* end(success): the state it sets, the result it generates, and what its
\* call of sendResult does.
EndBody(success, sendThrows) ==
    \E ended \in
          {[state EXCEPT
              !.status = IF success THEN "completed" ELSE "failed",
              !.endTime = Num(now),
              !.timeElapsed = (now - ToNumber(state.startTime).n) \div 1000]} :
    \E result \in {generateResult(config, ended, milestones, now, success)} :
    \E eff \in {sendResult(variant, config, host, result, storage, now,
                           sendThrows)} :
        /\ state' = ended
        /\ storage' = eff.storage
        /\ tg' = [tg EXCEPT
                     !.sendCount = @ + Len(eff.sent),
                     !.lastData = IF Len(eff.sent) > 0
                                  THEN eff.sent[Len(eff.sent)] ELSE @]
        /\ alerts' = alerts + eff.alerts + MockAlerts(telegram, eff)
        /\ timers' = timers + eff.scheduled
        /\ fetches' = fetches + Posted(variant, config)
        /\ ends' = ends + 1
        /\ lastEnd' =
              [called |-> TRUE, success |-> success, threw |-> eff.threw,
               ret |-> IF eff.threw THEN Undef ELSE result,
               path |-> eff.path, sent |-> Len(eff.sent),
               alerted |-> eff.alerts,
               written |-> eff.wrote,
               scheduled |-> eff.scheduled, sendThrew |-> eff.sendThrew]

end ==
    /\ phase = "ready"
    /\ ends < MaxEnds
    /\ \E success \in BOOLEAN :
       \E sendThrows \in BOOLEAN : EndBody(success, sendThrows)
    /\ UNCHANGED <<mock, telegram, mockScript, translations, lastT,
                   variant, phase, query, gameConfig, host, config,
                   milestones, now, ticks>>

\* a back button that closes the app whatever the status
handleExit_alwaysClose ==
    /\ phase = "ready"
    /\ tg.closes < MaxCloses
    /\ tg' = [tg EXCEPT !.closes = @ + 1]
    /\ UNCHANGED <<state, storage, alerts, timers, ends, lastEnd, fetches>>
    /\ UNCHANGED <<mock, telegram, mockScript, translations, lastT,
                   variant, phase, query, gameConfig, host, config,
                   milestones, now, ticks>>

\* The back button: BackButton.onClick(() => this.handleExit())
handleExit ==
    /\ phase = "ready"
    /\ \E confirmed \in BOOLEAN :
          IF state.status = "playing"
          THEN IF confirmed
               THEN /\ ends < MaxEnds
                    /\ \E sendThrows \in BOOLEAN : EndBody(FALSE, sendThrows)
               ELSE UNCHANGED <<state, storage, tg, alerts, timers, ends,
                                lastEnd, fetches>>
          ELSE /\ tg.closes < MaxCloses
               /\ tg' = [tg EXCEPT !.closes = @ + 1]
               /\ UNCHANGED <<state, storage, alerts, timers, ends, lastEnd,
                              fetches>>
    /\ UNCHANGED <<mock, telegram, mockScript, translations, lastT,
                   variant, phase, query, gameConfig, host, config,
                   milestones, now, ticks>>

\* a timer whose callback closes twice
CloseTimer_twice ==
    /\ timers > 0
    /\ timers' = timers - 1
    /\ tg' = [tg EXCEPT !.closes = @ + 2, !.timerCloses = @ + 2]
    /\ UNCHANGED <<mock, telegram, mockScript, translations, lastT, fetches,
                   variant, phase, query, gameConfig, host, config, state,
                   milestones, storage, now, ticks, alerts, ends, lastEnd>>

\* how the POST of part_000 can settle
FetchOutcomes == {"ok", "rejected", "notJson"}

\* handlers that close only on the fulfilled path
TimersAfterFetch_noCatch(outcome) ==
    LET parsed == outcome = "ok"
    IN  IF parsed THEN 1 ELSE 0

\* fetch(...).then(res => res.json()).then(close later).catch(close later):
\* the second then runs when the POST was fulfilled and its body parsed,
\* the catch when the POST or the parse was rejected; each sets one timer
TimersAfterFetch(outcome) ==
    LET fulfilled == outcome # "rejected"
        parsed == fulfilled /\ outcome # "notJson"
        caught == ~fulfilled \/ ~parsed
    IN  (IF parsed THEN 1 ELSE 0) + (IF caught THEN 1 ELSE 0)

\* a pending POST settles and its handlers run
FetchSettles ==
    /\ fetches > 0
    /\ fetches' = fetches - 1
    /\ \E outcome \in FetchOutcomes :
          timers' = timers + TimersAfterFetch(outcome)
    /\ UNCHANGED <<mock, telegram, mockScript, translations, lastT, variant,
                   phase, query, gameConfig, host, config, state, milestones,
                   storage, now, ticks, tg, alerts, ends, lastEnd>>

\* setTimeout(() => this.tg.close(), ...) fires
CloseTimer ==
    /\ timers > 0
    /\ timers' = timers - 1
    /\ tg' = [tg EXCEPT !.closes = @ + 1, !.timerCloses = @ + 1]
    /\ UNCHANGED <<mock, telegram, mockScript, translations, lastT, fetches,
                   variant, phase, query, gameConfig, host, config, state,
                   milestones, storage, now, ticks, alerts, ends, lastEnd>>

\* Time passes. (Only the time that passes during a game is modelled: the
\* time between games shifts every timestamp alike.)
Tick ==
    /\ state.status = "playing"
    /\ ticks < MaxTicks
    /\ ticks' = ticks + 1
    /\ now' = now + TickMs
    /\ UNCHANGED <<mock, telegram, mockScript, translations, lastT, fetches,
                   variant, phase, query, gameConfig, host, config, state,
                   milestones, storage, tg, alerts, timers, ends, lastEnd>>

\* ------------------------------------------------------------- page load
\* window.Telegram of a page opened outside Telegram: undefined, or an
\* object without WebApp
NoTelegram == [defined |-> FALSE, webApp |-> "absent", others |-> FALSE]
BareTelegram == [defined |-> TRUE, webApp |-> "absent", others |-> TRUE]

\* window.Telegram = { WebApp: TelegramWebAppMock }
MockTelegram == [defined |-> TRUE, webApp |-> "mock", others |-> FALSE]

\* the members of TelegramWebAppMock the framework reads: sendData is a
\* function, initDataUnsafe.user is mockUsers.user1
MockHost == [sendData |-> "function", user |-> MockUser1]

\* no WebApp object to read members from
NoHost == [sendData |-> "absent", user |-> Undef]

\* The top of the framework script: outside Telegram it appends a script
\* element for the mock, which the browser fetches and runs later.
LoadFramework ==
    /\ phase = "blank"
    /\ phase' = "loaded"
    /\ mockScript' = IF ~telegram.defined \/ telegram.webApp = "absent"
                     THEN "injected"
                     ELSE mockScript
    /\ UNCHANGED <<mock, telegram, translations, lastT, fetches, variant, query,
                   gameConfig, host, config, state, milestones, storage,
                   now, ticks, tg, alerts, timers, ends, lastEnd>>

\* the mock script, once in the page, runs always and replaces a real host
MockScript_overwrite ==
    /\ mockScript \in {"tagged", "injected"}
    /\ mockScript' = "ran"
    /\ telegram' = MockTelegram
    /\ host' = MockHost
    /\ UNCHANGED <<mock, translations, lastT, fetches, variant, phase, query,
                   gameConfig, config, state, milestones, storage, now,
                   ticks, tg, alerts, timers, ends, lastEnd>>

\* The mock script runs, whether the page names it in a script element of
\* its own ("tagged") or the framework appended it ("injected").
MockScript ==
    /\ mockScript \in {"tagged", "injected"}
    /\ mockScript' = "ran"
    /\ IF telegram.defined /\ telegram.webApp # "absent"
       THEN UNCHANGED <<telegram, host>>
       ELSE /\ telegram' = MockTelegram
            /\ host' = MockHost
    /\ UNCHANGED <<mock, translations, lastT, fetches, variant, phase, query,
                   gameConfig, config, state, milestones, storage, now,
                   ticks, tg, alerts, timers, ends, lastEnd>>

\* ------------------------------------------------------- helper operations
\* mockUsers.user2 (Jane), as far as the framework reads it
MockUser2 ==
    Obj(<< <<"id", Num(987654321)>>, <<"language_code", C(<<"e", "n">>)>> >>)

User1Id == Str(<<"u", "s", "e", "r", "1">>)
User2Id == Str(<<"u", "s", "e", "r", "2">>)
User3Id == Str(<<"u", "s", "e", "r", "3">>)

\* mockUsers[userId]
MockUserOf(userId) ==
    IF userId = User1Id THEN MockUser1
    ELSE IF userId = User2Id THEN MockUser2
    ELSE Undef

\* Telegram.WebApp._setUser(userId) of the mock
_setUser ==
    /\ telegram.webApp = "mock"
    /\ \E userId \in {User1Id, User2Id, User3Id} :
          IF Truthy(MockUserOf(userId))
          THEN /\ host' = [host EXCEPT !.user = MockUserOf(userId)]
               /\ storage' = SetItem(storage, MockUserKey, PlainText(userId))
          ELSE UNCHANGED <<host, storage>>
    /\ UNCHANGED <<mock, telegram, mockScript, translations, lastT, fetches,
                   variant, phase, query, gameConfig, config, state,
                   milestones, now, ticks, tg, alerts, timers, ends, lastEnd>>

\* window.clearGameData(): removes every key its filter takes
clearGameData ==
    /\ storage' = {e \in storage : ~IsGameKey(e.key)}
    /\ UNCHANGED <<mock, telegram, mockScript, translations, lastT, fetches,
                   variant, phase, query, gameConfig, host, config, state,
                   milestones, now, ticks, tg, alerts, timers, ends, lastEnd>>

\* ------------------------------------------------------- mock operations
\* a call on the mock changes the mock alone
MockAlone ==
    /\ telegram.webApp = "mock"
    /\ UNCHANGED <<telegram, mockScript, translations, lastT, fetches,
                   variant, phase, query, gameConfig, host, config, state,
                   milestones, storage, now, ticks, tg, alerts, timers, ends,
                   lastEnd>>

Buttons == {"BackButton", "MainButton"}
Callbacks == {"cb1", "cb2"}

onClick ==
    /\ \E name \in Buttons : \E callback \in Callbacks :
          mock' = [mock EXCEPT ![name] = ButtonOnClick(name, @, callback)]
    /\ MockAlone

offClick ==
    /\ \E name \in Buttons : \E callback \in Callbacks :
          mock' = [mock EXCEPT ![name] = ButtonOffClick(@, callback)]
    /\ MockAlone

show ==
    /\ \E name \in Buttons :
          mock' = [mock EXCEPT ![name] = ButtonShow(name, @)]
    /\ MockAlone

hide ==
    /\ \E name \in Buttons : mock' = [mock EXCEPT ![name] = ButtonHide(@)]
    /\ MockAlone

setText ==
    /\ \E text \in {"CONTINUE", "PLAY"} :
          mock' = [mock EXCEPT !.MainButton =
                      MainRender([@ EXCEPT !.text = text])]
    /\ MockAlone

enable ==
    /\ mock' = [mock EXCEPT !.MainButton =
                    MainRender([@ EXCEPT !.isActive = TRUE])]
    /\ MockAlone

disable ==
    /\ mock' = [mock EXCEPT !.MainButton =
                    MainRender([@ EXCEPT !.isActive = FALSE])]
    /\ MockAlone

showProgress ==
    /\ mock' = [mock EXCEPT !.MainButton =
                    MainRender([@ EXCEPT !.isProgressVisible = TRUE])]
    /\ MockAlone

hideProgress ==
    /\ mock' = [mock EXCEPT !.MainButton =
                    MainRender([@ EXCEPT !.isProgressVisible = FALSE])]
    /\ MockAlone

setParams ==
    /\ \E param \in ButtonParams :
          mock' = [mock EXCEPT !.MainButton =
                      MainRender(ButtonAssign(@, param))]
    /\ MockAlone

\* the user clicks an element of a button
Click ==
    /\ \E name \in Buttons :
          /\ mock[name].elements > 0
          /\ mock' = [mock EXCEPT !.lastClick =
                          <<name, ButtonClicked(name, mock[name])>>]
    /\ MockAlone

Listeners == {"cbA", "cbB"}
Themes == {"dark", "light", "blue"}

\* the colorScheme and themeParams _setTheme installs for its argument
ThemeFor(theme) == IF theme = "dark" THEN "dark" ELSE "light"

onEvent ==
    /\ \E eventType \in EventTypes : \E callback \in Listeners :
          /\ Len(mock.events[eventType]) < MaxListeners
          /\ mock' = MockOnEvent(mock, eventType, callback)
    /\ MockAlone

offEvent ==
    /\ \E eventType \in EventTypes : \E callback \in Listeners :
          mock' = MockOffEvent(mock, eventType, callback)
    /\ MockAlone

_triggerEvent ==
    /\ mock.triggered < MaxTriggers
    /\ \E eventType \in EventTypes :
          mock' = MockTriggerEvent(mock, eventType)
    /\ MockAlone

\* a _setTheme that notifies the listeners before it replaces the theme
_setTheme_notifyFirst ==
    /\ mock.triggered < MaxTriggers
    /\ \E theme \in Themes :
          mock' = [MockTriggerEvent(mock, "themeChanged")
                      EXCEPT !.colorScheme = ThemeFor(theme)]
    /\ MockAlone

\* _setTheme(theme): colorScheme and themeParams are replaced, then
\* 'themeChanged' is triggered
_setTheme ==
    /\ mock.triggered < MaxTriggers
    /\ \E theme \in Themes :
          mock' = MockTriggerEvent([mock EXCEPT !.colorScheme = ThemeFor(theme)],
                                   "themeChanged")
    /\ MockAlone

\* ------------------------------------------------------------ translations
\* The translation tables are objects keyed by the characters of the
\* language code and of the translation key.
\* a function object, as the members of Object.prototype are
Fn == JS("function", 0, 1, EmptyStr, <<>>)

\* names every object literal inherits from Object.prototype
ProtoMembers ==
    {Str(<<"c", "o", "n", "s", "t", "r", "u", "c", "t", "o", "r">>),
     Str(<<"t", "o", "S", "t", "r", "i", "n", "g">>)}

\* obj[name]: the own member, else the inherited one, else undefined
Member(obj, name) ==
    IF obj.t = "obj" /\ \E i \in 1..Len(obj.o) : obj.o[i][1] = name
    THEN Get(obj, name)
    ELSE IF obj.t \in {"obj", "function"} /\ name \in ProtoMembers THEN Fn
    ELSE Undef

LangEn == Str(<<"e", "n">>)
LangRu == Str(<<"r", "u">>)
KeyTitle == Str(<<"t", "i", "t", "l", "e">>)

\* the tables a game may hand to setTranslations: per language no table,
\* an empty one, one with an empty text, one with a text
LanguageTables(text) ==
    {Undef, Obj(<<>>), Obj(<< <<KeyTitle, C(<<>>)>> >>),
     Obj(<< <<KeyTitle, C(text)>> >>)}

TranslationTables ==
    {Obj(SelectSeq(<< <<LangEn, en>>, <<LangRu, ru>> >>,
                   LAMBDA p : p[2] # Undef)) :
        en \in LanguageTables(<<"T", "i", "t", "l", "e">>),
        ru \in LanguageTables(<<"I", "m", "y", "a">>)}

TKeys == {KeyTitle, Str(<<"c", "o", "n", "s", "t", "r", "u", "c", "t", "o", "r">>),
          EmptyStr}
TFallbacks == {Null, C(<<>>), C(<<"F", "b">>)}

\* t(key, fallback) for this.translations = tr and config.language = lang
t(tr, lang, key, fallback) ==
    IF /\ Truthy(Member(tr, lang.s))
       /\ Truthy(Member(Member(tr, lang.s), key))
    THEN Member(Member(tr, lang.s), key)
    ELSE IF /\ lang # StrV(LangEn)
            /\ Truthy(Member(tr, LangEn))
            /\ Truthy(Member(Member(tr, LangEn), key))
    THEN Member(Member(tr, LangEn), key)
    ELSE OrElse(fallback, StrV(key))

\* setTranslations(translations); applyTranslations, which it calls or
\* defers, writes to the document only
setTranslations ==
    /\ phase = "ready"
    /\ translations' \in TranslationTables
    /\ UNCHANGED <<mock, telegram, mockScript, lastT, fetches, variant, phase,
                   query, gameConfig, host, config, state, milestones,
                   storage, now, ticks, tg, alerts, timers, ends, lastEnd>>

\* a call of t(key) or t(key, fallback)
CallT ==
    /\ phase = "ready"
    /\ \E key \in TKeys : \E fallback \in TFallbacks :
          lastT' = [called |-> TRUE, key |-> key, fallback |-> fallback,
                    ret |-> t(translations, config.language, key, fallback)]
    /\ UNCHANGED <<mock, telegram, mockScript, translations, fetches, variant,
                   phase, query, gameConfig, host, config, state, milestones,
                   storage, now, ticks, tg, alerts, timers, ends, lastEnd>>

\* ---------------------------------------------------------- specifications
\* window.Telegram as a host that provides the bridge leaves it
HostTelegram == [defined |-> TRUE, webApp |-> "real", others |-> FALSE]

\* no t() call yet
NoT == [called |-> FALSE, key |-> EmptyStr, fallback |-> Null, ret |-> Undef]

Loaded(variants, queries, configs, hosts) ==
    /\ variant \in variants
    /\ phase = "loaded"
    /\ query \in queries
    /\ gameConfig \in configs
    /\ host \in hosts
    /\ config = NoConfig
    /\ state = NoState
    /\ milestones = <<>>
    /\ storage = {}
    /\ now = PageLoadTime
    /\ ticks = 0
    /\ tg = NoCalls
    /\ alerts = 0
    /\ timers = 0
    /\ ends = 0
    /\ lastEnd = NoEnd
    /\ telegram = HostTelegram
    /\ mockScript = "none"
    /\ translations = Obj(<<>>)
    /\ lastT = NoT
    /\ fetches = 0
    /\ mock = NoMock

Hosts ==
    { [sendData |-> "function", user |-> MockUser1],
      [sendData |-> "absent", user |-> Undef] }

Init ==
    Loaded({"current", "working"}, Queries, {HanoiConfig}, Hosts)

Next ==
    \/ Construct
    \/ start
    \/ GameUpdate
    \/ recordMilestone
    \/ end
    \/ handleExit
    \/ CloseTimer
    \/ Tick

Spec == Init /\ [][Next]_vars

\* One page of game-interface.js (the query ?sessionId=s1..., a host with
\* sendData) followed through games that record several milestones.
\* (recordMilestone and getMilestonesSummary are the same text in
\* game-interface_working.js.)
InitMilestones ==
    Loaded({"current"},
           {q \in Queries : q["difficulty"] # Null}, {HanoiConfig},
           {h \in Hosts : h.sendData = "function"})

NextMilestones ==
    \/ Construct
    \/ start
    \/ GameUpdate
    \/ recordMilestones
    \/ end
    \/ Tick

SpecMilestones == InitMilestones /\ [][NextMilestones]_vars

\* The translation calls of one instance whose language is en (from the
\* host user), ru (from ?language=RU) or pt (from a host user with pt-BR).
InitTranslate ==
    \/ Loaded({"current"},
              {NoQuery, [NoQuery EXCEPT !["language"] = C(<<"R", "U">>)]},
              {HanoiConfig}, {h \in Hosts : h.sendData = "function"})
    \/ Loaded({"current"}, {NoQuery}, {HanoiConfig},
              {[sendData |-> "function", user |-> UserPtBr]})

NextTranslate ==
    \/ Construct
    \/ setTranslations
    \/ CallT

SpecTranslate == InitTranslate /\ [][NextTranslate]_vars

\* The life cycle of game-interface_working.js for sessions that have a
\* sessionId; a timer that is due fires.
InitClose ==
    Loaded({"working"}, {q \in Queries : q["sessionId"] # Null},
           {HanoiConfig}, Hosts)

NextClose ==
    \/ Construct
    \/ start
    \/ end
    \/ handleExit
    \/ CloseTimer
    \/ Tick

SpecClose == InitClose /\ [][NextClose]_vars /\ WF_vars(CloseTimer)

\* The life cycle of part_000 with and without a sessionId; a pending POST
\* settles and a timer that is due fires.
LegacyQueries ==
    Queries \cup {[NoQuery EXCEPT !["sessionId"] = C(<<>>)]}

InitLegacy == Loaded({"legacy"}, LegacyQueries, {HanoiConfig}, Hosts)

NextLegacy ==
    \/ Construct
    \/ start
    \/ end
    \/ handleExit
    \/ FetchSettles
    \/ CloseTimer
    \/ Tick

SpecLegacy ==
    InitLegacy /\ [][NextLegacy]_vars
               /\ WF_vars(FetchSettles) /\ WF_vars(CloseTimer)

\* The development helpers beside one game, on a page inside Telegram or
\* with the mock installed, whose local storage may hold another script's
\* item.
ThemeKey == Str(<<"t", "h", "e", "m", "e">>)
OtherItems == {[key |-> ThemeKey, val |-> PlainText(Str(<<"d", "a", "r", "k">>))]}

InitHelpers ==
    /\ variant \in {"current", "working"}
    /\ phase = "loaded"
    /\ query \in Queries
    /\ gameConfig = HanoiConfig
    /\ \/ telegram = HostTelegram /\ host \in Hosts
       \/ telegram = MockTelegram /\ host = MockHost
    /\ mockScript = "none"
    /\ config = NoConfig
    /\ state = NoState
    /\ milestones = <<>>
    /\ storage \in SUBSET OtherItems
    /\ now = PageLoadTime
    /\ ticks = 0
    /\ tg = NoCalls
    /\ alerts = 0
    /\ timers = 0
    /\ ends = 0
    /\ lastEnd = NoEnd
    /\ translations = Obj(<<>>)
    /\ lastT = NoT
    /\ fetches = 0
    /\ mock = NoMock

NextHelpers ==
    \/ Construct
    \/ start
    \/ end
    \/ Tick
    \/ _setUser
    \/ clearGameData

SpecHelpers == InitHelpers /\ [][NextHelpers]_vars

\* The back button of game-interface.js during and outside a game.
InitExit == Loaded({"current"}, Queries, {HanoiConfig}, Hosts)

NextExit ==
    \/ Construct
    \/ start
    \/ recordMilestone
    \/ end
    \/ handleExit
    \/ Tick

SpecExit == InitExit /\ [][NextExit]_vars

\* The mock's buttons under every sequence of their API calls and of
\* clicks, with and without a game instance.
InitMock ==
    /\ variant \in {"current", "working"}
    /\ phase = "loaded"
    /\ query = NoQuery
    /\ gameConfig = HanoiConfig
    /\ telegram = MockTelegram
    /\ host = MockHost
    /\ mockScript = "ran"
    /\ config = NoConfig
    /\ state = NoState
    /\ milestones = <<>>
    /\ storage = {}
    /\ now = PageLoadTime
    /\ ticks = 0
    /\ tg = NoCalls
    /\ alerts = 0
    /\ timers = 0
    /\ ends = 0
    /\ lastEnd = NoEnd
    /\ translations = Obj(<<>>)
    /\ lastT = NoT
    /\ fetches = 0
    /\ mock = NoMock

NextButtons ==
    \/ Construct
    \/ onClick
    \/ offClick
    \/ show
    \/ hide
    \/ setText
    \/ enable
    \/ disable
    \/ showProgress
    \/ hideProgress
    \/ setParams
    \/ Click

SpecButtons == InitMock /\ [][NextButtons]_vars

\* The mock's event registry under every sequence of registrations,
\* removals, triggers and theme changes, with and without a game instance.
NextEvents ==
    \/ Construct
    \/ onEvent
    \/ offEvent
    \/ _triggerEvent
    \/ _setTheme

SpecEvents == InitMock /\ [][NextEvents]_vars

\* Page load: the framework script, the mock script and the game's
\* constructor call in every order the browser allows, inside Telegram and
\* outside it.
LoadQueries ==
    {q \in ParseQueries :
        /\ q["difficulty"] \in {Null, C(<<"2">>)}
        /\ q["sessionId"] \in {Null, C(<<"s", "1">>)}
        /\ \A k \in {"timeLimit", "timeModifier", "hints", "scoreModifier",
                      "gameId"} : q[k] = Null}

InitLoad ==
    /\ variant \in {"current", "working"}
    /\ phase = "blank"
    /\ query \in LoadQueries
    /\ gameConfig = HanoiConfig
    /\ \/ telegram = HostTelegram /\ host \in Hosts
       \/ telegram \in {NoTelegram, BareTelegram} /\ host = NoHost
    /\ mockScript \in {"none", "tagged"}
    /\ config = NoConfig
    /\ state = NoState
    /\ milestones = <<>>
    /\ storage = {}
    /\ now = PageLoadTime
    /\ ticks = 0
    /\ tg = NoCalls
    /\ alerts = 0
    /\ timers = 0
    /\ ends = 0
    /\ lastEnd = NoEnd
    /\ translations = Obj(<<>>)
    /\ lastT = NoT
    /\ fetches = 0
    /\ mock = NoMock

NextLoad ==
    \/ LoadFramework
    \/ MockScript
    \/ Construct

SpecLoad == InitLoad /\ [][NextLoad]_vars

\* Construction alone, over every combination of query parameters.
InitParse ==
    Loaded({"current", "working"}, ParseQueries,
           {HanoiConfig, AnonymousConfig},
           [sendData : {"function"},
            user : {Undef, MockUser1, UserPtBr, UserNoLang}])

NextParse == Construct

SpecParse == InitParse /\ [][NextParse]_vars

\* ------------------------------------------------------------------ claims
\* the payload of the most recent sendData call, parsed
SentPayload == JsonParse(tg.lastData)

ValidIds == Truthy(config.sessionId) /\ Truthy(config.gameId)

\* an end() call is the step that raises ends
EndCalled == ends' = ends + 1

\* C1: in game-interface.js, with non-empty sessionId and gameId and a
\* sendData function, every end(success) call invokes tg.sendData exactly
\* once with a JSON string whose sessionId, gameId, userId, success, status,
\* score, moves, mistakes and hintsUsed are those of the instance at the call,
\* and returns the full result object.
C1_EndSendsResultOnce ==
    [][ (EndCalled /\ variant = "current" /\ ValidIds
           /\ host.sendData = "function")
        => /\ tg'.sendCount = tg.sendCount + 1
           /\ Get(JsonParse(tg'.lastData), "sessionId") = config.sessionId
           /\ Get(JsonParse(tg'.lastData), "gameId") = config.gameId
           /\ Get(JsonParse(tg'.lastData), "userId") = config.userId
           /\ Get(JsonParse(tg'.lastData), "success") = Bool(lastEnd'.success)
           /\ Get(JsonParse(tg'.lastData), "status") = StatusText(state'.status)
           /\ Get(JsonParse(tg'.lastData), "score") = Num(state.score)
           /\ Get(JsonParse(tg'.lastData), "moves") = Num(state.moves)
           /\ Get(JsonParse(tg'.lastData), "mistakes") = Num(state.mistakes)
           /\ Get(JsonParse(tg'.lastData), "hintsUsed") = Num(state.hintsUsed)
           /\ lastEnd'.ret =
                 generateResult(config, state', milestones, now, lastEnd'.success)
      ]_vars

\* C2: over any sequence of start, end, recordMilestone and back-button
\* events, the host's sendData is invoked at most once for one instance.
C2_SendDataAtMostOnce == tg.sendCount <= 1

\* C3: in game-interface.js the string that sendResult passes to tg.sendData
\* is never longer than 4096 characters.
C3_SentWithinLimit ==
    (variant = "current" /\ tg.sendCount > 0) => tg.lastData.len <= SizeLimit

C3_Witness ==
    /\ variant = "current"
    /\ lastEnd.called
    /\ lastEnd.path = "sent"
    /\ tg.sendCount > 0
    /\ tg.lastData.len > 0

\* the compact result of the most recent end() call is over the limit
LastCompactOversized ==
    /\ lastEnd.called
    /\ JsonText(compactResult(lastEnd.ret)).len > SizeLimit

\* C4: in game-interface.js, when the compact result serializes to more than
\* 4096 characters, the ultra-compact payload replaces it and is what is
\* passed to tg.sendData.
C4_UltraCompactSent ==
    (variant = "current" /\ ValidIds /\ host.sendData = "function"
       /\ LastCompactOversized)
    => /\ lastEnd.sent = 1
       /\ SentPayload = Stringify(ultraCompact(lastEnd.ret))

\* C5: in game-interface_working.js a result that serializes to more than
\* 4096 characters is not passed to tg.sendData but degraded to the
\* local-storage fallback or an alert.
C5_OversizedNotSent ==
    (variant = "working" /\ ValidIds /\ lastEnd.called
       /\ JsonText(lastEnd.ret).len > SizeLimit)
    => /\ lastEnd.sent = 0
       /\ (lastEnd.written # {} \/ lastEnd.alerted > 0)

\* C6: with no sendData function on the host bridge and non-empty sessionId
\* and gameId, sendResult writes the serialized result under
\* game_result_<sessionId> and game_result_latest, shows exactly one alert,
\* schedules no close and does not throw.
C6_FallbackStored ==
    [][ (EndCalled /\ ValidIds /\ host.sendData = "absent")
        => /\ lastEnd'.written = {ResultKey(config.sessionId), LatestKey}
           /\ HasItem(storage', ResultKey(config.sessionId))
           /\ HasItem(storage', LatestKey)
           /\ GetItem(storage', ResultKey(config.sessionId))
                 = GetItem(storage', LatestKey)
           /\ GetItem(storage', LatestKey).isJson
           /\ Get(JsonParse(GetItem(storage', LatestKey)), "sessionId")
                 = config.sessionId
           /\ lastEnd'.alerted = 1
           /\ alerts' = alerts + 1
           /\ timers' = timers
           /\ tg'.closes = tg.closes
           /\ ~lastEnd'.threw
      ]_vars

\* C7: after every end(success), for every query string and host, the result
\* was passed to tg.sendData, or a record was written to local storage, or an
\* alert was shown.
C7_ResultNeverDropped ==
    [][ EndCalled
        => \/ tg'.sendCount > tg.sendCount
           \/ lastEnd'.written # {}
           \/ alerts' > alerts
      ]_vars

\* C7 as amended: when sessionId and gameId are non-empty, every end()
\* call passes the result to tg.sendData, writes a record to local storage
\* or shows an alert; when one of them is missing, sendResult does none of
\* these (it only logs to the console).
C7_ValidResultNeverDropped ==
    [][ EndCalled
        => IF ValidIds
           THEN \/ tg'.sendCount > tg.sendCount
                \/ lastEnd'.written # {}
                \/ alerts' > alerts
           ELSE /\ tg' = tg
                /\ storage' = storage
                /\ alerts' = alerts
                /\ timers' = timers
                /\ lastEnd'.path = "invalid"
      ]_vars

C7_Witness ==
    /\ lastEnd.called
    /\ ValidIds
    /\ host.sendData = "absent"
    /\ lastEnd.path = "fallback"
    /\ lastEnd.sent = 0
    /\ lastEnd.alerted = 1
    /\ lastEnd.written # {}

\* the error keys among the keys written
ErrorKeysWritten(written) ==
    {k \in written :
        /\ Len(k.body) > Len(ErrorKey(0).body) - 1
        /\ SubSeq(k.body, 1, Len(ErrorKey(0).body) - 1)
              = SubSeq(ErrorKey(0).body, 1, Len(ErrorKey(0).body) - 1)}

\* C8: when tg.sendData throws inside sendResult, sendData is not called a
\* second time, no exception leaves sendResult or end(), an error record
\* with the result's sessionId, gameId and score is written under a
\* game_result_error_<timestamp> key, one alert is shown, and end() returns
\* the result object.
C8_SendDataThrowHandled ==
    [][ (EndCalled /\ lastEnd'.sendThrew)
        => /\ tg'.sendCount = tg.sendCount + 1
           /\ ~lastEnd'.threw
           /\ ErrorKeysWritten(lastEnd'.written) = {ErrorKey(now)}
           /\ HasItem(storage', ErrorKey(now))
           /\ LET record == JsonParse(GetItem(storage', ErrorKey(now)))
              IN  /\ Get(Get(record, "result"), "sessionId") = config.sessionId
                  /\ Get(Get(record, "result"), "gameId") = config.gameId
                  /\ Get(Get(record, "result"), "score") = Num(state.score)
           /\ alerts' = alerts + 1
           /\ lastEnd'.ret =
                 generateResult(config, state', milestones, now, lastEnd'.success)
           /\ Get(lastEnd'.ret, "sessionId") = config.sessionId
      ]_vars

C8_Witness ==
    /\ lastEnd.called
    /\ lastEnd.sendThrew
    /\ lastEnd.sent = 1
    /\ lastEnd.alerted = 1

\* the values the parameters of ParseQueries denote
ExpectedInt(v) ==
    CASE v = C(<<"2">>) -> Num(2)
      [] v = C(<<"5">>) -> Num(5)
      [] v = C(<<"7">>) -> Num(7)
      [] v = C(<<"6", "0">>) -> Num(60)
      [] OTHER -> NaN

ExpectedFloat(v) ==
    CASE v = C(<<"1", ".", "5">>) -> JS("num", 15, 10, EmptyStr, <<>>)
      [] v = C(<<"0", ".", "5">>) -> JS("num", 5, 10, EmptyStr, <<>>)
      [] OTHER -> NaN

\* C9: after construction difficulty, hintsCount, sessionId, timeModifier
\* and scoreModifier hold the parsed value of their query parameter when it
\* is present and the defaults 1, 3, null, 1.0, 1.0 when it is absent; userId
\* is the host user's id, or null without a host user; and no query
\* parameter changes gameId or gameName.
C9_ConfigFromQuery ==
    phase = "ready" =>
       /\ config.difficulty =
             IF UrlHas(query, "difficulty")
             THEN ExpectedInt(query["difficulty"]) ELSE Num(1)
       /\ config.hintsCount =
             IF UrlHas(query, "hints")
             THEN ExpectedInt(query["hints"]) ELSE Num(3)
       /\ config.sessionId =
             IF UrlHas(query, "sessionId") THEN query["sessionId"] ELSE Null
       /\ config.timeModifier =
             IF UrlHas(query, "timeModifier")
             THEN ExpectedFloat(query["timeModifier"]) ELSE Num(1)
       /\ config.scoreModifier =
             IF UrlHas(query, "scoreModifier")
             THEN ExpectedFloat(query["scoreModifier"]) ELSE Num(1)
       /\ config.userId =
             IF host.user # Undef THEN Get(host.user, "id") ELSE Null
       /\ config.gameId = Get(gameConfig, "gameId")
       /\ config.gameName = Get(gameConfig, "gameName")

C9_Witness ==
    /\ phase = "ready"
    /\ UrlHas(query, "difficulty")
    /\ UrlHas(query, "timeModifier")
    /\ UrlHas(query, "sessionId")
    /\ UrlHas(query, "gameId")
    /\ ~UrlHas(query, "hints")
    /\ ~UrlHas(query, "scoreModifier")
    /\ host.user # Undef
    /\ config.difficulty = Num(7)
    /\ config.hintsCount = Num(3)

\* C10: for every query string, config.difficulty after construction is one
\* of 1, 2, 3, 4, so that generateOutputString prints one of the four
\* difficulty names.
C10_DifficultyInRange ==
    phase = "ready" =>
       /\ config.difficulty \in {Num(1), Num(2), Num(3), Num(4)}
       /\ DifficultyName(config.difficulty) \in
             {difficultyNames[i] : i \in 1..Len(difficultyNames)}

\* the language codes the inputs of ParseQueries and the host users denote
ExpectedLanguage(v) ==
    CASE v = C(<<"e", "n", "-", "U", "S">>) -> C(<<"e", "n">>)
      [] v = C(<<"R", "U">>) -> C(<<"r", "u">>)
      [] v = C(<<"e", "n">>) -> C(<<"e", "n">>)
      [] v = C(<<"p", "t", "-", "B", "R">>) -> C(<<"p", "t">>)
      [] v = C(<<>>) -> C(<<>>)
      [] OTHER -> Undef

\* the language the claim selects before it is normalised
SelectedLanguage ==
    IF UrlHas(query, "lang") THEN query["lang"]
    ELSE IF UrlHas(query, "language") THEN query["language"]
    ELSE IF host.user # Undef /\ Get(host.user, "language_code") # Undef
    THEN Get(host.user, "language_code")
    ELSE C(<<"e", "n">>)

\* C11: once the constructor has run, config.language is the lower-cased
\* part before the first '-' of the lang parameter, else of the language
\* parameter, else of the host user's language_code, else 'en', and it is a
\* non-empty string.
C11_LanguageSelected ==
    phase # "loaded" =>
       /\ phase = "ready"
       /\ config.language = ExpectedLanguage(SelectedLanguage)
       /\ config.language.t = "str"
       /\ StrLen(config.language.s) > 0

Statuses == {"idle", "playing", "paused", "completed", "failed"}

\* C12: state.status of an instance is always one of idle, playing, paused,
\* completed, failed; it is idle right after construction; and the status
\* of every generated result is completed when success is true and failed
\* when it is false.
C12_StatusEnum ==
    [][ /\ phase' # "loaded" => state'.status \in Statuses
        /\ (phase = "loaded" /\ phase' # "loaded") => state'.status = "idle"
        /\ EndCalled =>
              /\ lastEnd'.ret # Undef
              /\ Get(lastEnd'.ret, "status") =
                    IF lastEnd'.success
                    THEN C(<<"c", "o", "m", "p", "l", "e", "t", "e", "d">>)
                    ELSE C(<<"f", "a", "i", "l", "e", "d">>)
              /\ Get(lastEnd'.ret, "success") = Bool(lastEnd'.success)
      ]_vars

C12_Witness ==
    /\ lastEnd.called
    /\ ~lastEnd.success
    /\ state.status = "failed"
    /\ Get(lastEnd.ret, "status") = C(<<"f", "a", "i", "l", "e", "d">>)
    /\ state.startTime # Null

\* the summary getMilestonesSummary() would return in this state and in the
\* next one
Summary == getMilestonesSummary(milestones)
SummaryNext == getMilestonesSummary(milestones')

\* C13: getMilestonesSummary() is null until recordMilestone is first
\* called (null after construction, and changed by no other operation);
\* each recordMilestone call raises count by one, makes lastMilestone the
\* milestone just recorded, leaves firstMilestone the first one recorded and
\* keeps the milestones in recording order.
C13_MilestonesSummary ==
    [][ /\ (phase = "loaded" /\ phase' # "loaded") => SummaryNext = Null
        /\ (phase # "loaded" /\ ~recordMilestones) => SummaryNext = Summary
        /\ recordMilestones =>
              /\ SummaryNext # Null
              /\ Get(SummaryNext, "count") =
                    IF Summary = Null THEN Num(1)
                    ELSE Num(Get(Summary, "count").n + 1)
              /\ Get(Get(SummaryNext, "lastMilestone"), "timestamp") = Num(now)
              /\ Get(Get(SummaryNext, "lastMilestone"), "state") =
                    Obj(<< <<"score", Num(state.score)>>,
                           <<"moves", Num(state.moves)>>,
                           <<"mistakes", Num(state.mistakes)>>,
                           <<"hintsUsed", Num(state.hintsUsed)>> >>)
              /\ Get(SummaryNext, "firstMilestone") =
                    IF Summary = Null THEN Get(SummaryNext, "lastMilestone")
                    ELSE Get(Summary, "firstMilestone")
              /\ Len(Get(SummaryNext, "milestones").o) =
                    Get(SummaryNext, "count").n
              /\ Get(SummaryNext, "milestones").o[Get(SummaryNext, "count").n]
                    = Get(SummaryNext, "lastMilestone")
              /\ Summary # Null =>
                    \A i \in 1..Get(Summary, "count").n :
                       Get(SummaryNext, "milestones").o[i]
                          = Get(Summary, "milestones").o[i]
      ]_vars

\* three milestones recorded at different times, the first differing from
\* the last
C13_Witness ==
    /\ Summary # Null
    /\ Get(Summary, "count") = Num(3)
    /\ Get(Summary, "firstMilestone") # Get(Summary, "lastMilestone")
    /\ Get(Summary, "lastMilestone") = milestones[3]

\* the state snapshot recordMilestone takes of the running session
Snapshot ==
    Obj(<< <<"score", Num(state.score)>>, <<"moves", Num(state.moves)>>,
           <<"mistakes", Num(state.mistakes)>>,
           <<"hintsUsed", Num(state.hintsUsed)>> >>)

\* C14: the milestone list is append-only: a recordMilestone call appends
\* exactly one entry, whose state is the session state at the call, and no
\* operation removes, reorders or alters the name or state of a milestone
\* already recorded.
C14_MilestonesAppendOnly ==
    [][ phase # "loaded" =>
          /\ Len(milestones') >= Len(milestones)
          /\ \A i \in 1..Len(milestones) :
                /\ Get(milestones'[i], "name") = Get(milestones[i], "name")
                /\ Get(milestones'[i], "state") = Get(milestones[i], "state")
                /\ Get(milestones'[i], "timestamp")
                      = Get(milestones[i], "timestamp")
          /\ recordMilestones =>
                /\ Len(milestones') = Len(milestones) + 1
                /\ Get(milestones'[Len(milestones')], "state") = Snapshot
                /\ Get(milestones'[Len(milestones')], "name") \in MilestoneNames
          /\ ~recordMilestones => Len(milestones') = Len(milestones)
      ]_vars

\* two milestones with different snapshots, kept through a later end()
C14_Witness ==
    /\ Len(milestones) >= 2
    /\ Get(milestones[1], "state") # Get(milestones[2], "state")
    /\ Get(milestones[1], "state") # Snapshot
    /\ lastEnd.called
    /\ state.status = "completed"

\* the text the table of language lang holds for key, when it holds a
\* non-empty one (the table entries of this model are own members)
Translated(lang, key) ==
    IF \E i \in 1..Len(translations.o) : translations.o[i][1] = lang
    THEN LET table == Get(translations, lang)
         IN  IF \E j \in 1..Len(table.o) : table.o[j][1] = key
             THEN Get(table, key) ELSE Undef
    ELSE Undef

\* what the claim says t(key, fallback) returns, a translation or fallback
\* counting as present when it is a non-empty string
ExpectedT(key, fallback) ==
    IF Truthy(Translated(config.language.s, key))
    THEN Translated(config.language.s, key)
    ELSE IF Truthy(Translated(LangEn, key))
    THEN Translated(LangEn, key)
    ELSE IF Truthy(fallback) THEN fallback
    ELSE StrV(key)

\* C15: t(key, fallback) returns the translation in the current language
\* when there is one, else the English one, else the fallback when one is
\* given, else the key; for a non-empty key it never returns undefined,
\* null or the empty string.
C15_Translation ==
    [][CallT =>
         /\ lastT'.ret = ExpectedT(lastT'.key, lastT'.fallback)
         /\ StrLen(lastT'.key) > 0 =>
               /\ lastT'.ret.t \notin {"undefined", "null"}
               /\ lastT'.ret # C(<<>>)]_vars

\* C16: the mock never replaces a real host: when window.Telegram.WebApp
\* exists as the mock script runs, window.Telegram and the members of its
\* WebApp stay as they are; only when it is absent is the mock installed.
C16_MockKeepsRealHost ==
    [][MockScript =>
         IF telegram.webApp # "absent"
         THEN telegram' = telegram /\ host' = host
         ELSE telegram' = MockTelegram /\ host' = MockHost]_vars

\* the mock script has run in a page that has the real WebApp
C16_Witness ==
    /\ mockScript = "ran"
    /\ telegram = HostTelegram
    /\ host \in Hosts

\* C17: outside Telegram the mock is loaded so that window.Telegram.WebApp
\* is defined whenever a constructor reads it, in every order of the
\* appended mock script's run and the construction.
C17_WebAppDefinedAtConstruct ==
    [][Construct => telegram.webApp # "absent"]_vars

\* C18: in game-interface_working.js a sendResult that has passed the
\* result to sendData schedules one close, no other sendResult schedules
\* any; the timer's closes never outnumber the sendData calls made before
\* them, and every scheduled close eventually happens.
C18_CloseAfterSend ==
    /\ [][ends' # ends =>
            timers' = timers + (IF lastEnd'.path = "sent" THEN 1 ELSE 0)]_vars
    /\ [](tg.timerCloses + timers <= tg.sendCount)
    /\ \A n \in 1..MaxEnds :
          (tg.timerCloses + timers = n) ~> (tg.timerCloses >= n)

\* the result went to sendData and the timer has closed the app once
C18_Witness ==
    /\ variant = "working"
    /\ lastEnd.path = "sent"
    /\ ends = 1
    /\ timers = 0
    /\ tg.timerCloses = 1

\* the closes that sendResult's POST handlers have scheduled so far
ScheduledCloses == timers + tg.timerCloses

\* C19: in part_000, when the sessionId is set, every sendResult call gets
\* exactly one tg.close() scheduled, eventually, however its POST settles;
\* when the sessionId is not set none is ever scheduled.
C19_LegacyCloseOncePerSend ==
    /\ [](IF Truthy(config.sessionId)
          THEN fetches + ScheduledCloses = ends
          ELSE fetches + ScheduledCloses = 0)
    /\ \A n \in 1..MaxEnds :
          (Truthy(config.sessionId) /\ ends = n) ~> (ScheduledCloses >= n)

\* a session's sendResult whose POST was answered and whose close has run
C19_Witness ==
    /\ variant = "legacy"
    /\ Truthy(config.sessionId)
    /\ ends = 1
    /\ fetches = 0
    /\ tg.timerCloses = 1

\* C20: in game-interface.js, once a sendResult has reached sendData,
\* inspectLastResult() returns an object equal to the parse of the string
\* that was sent; with no game_result_latest item it returns null.
C20_InspectLastResult ==
    variant = "current" =>
       /\ tg.sendCount > 0 =>
             /\ inspectLastResult(storage).t = "obj"
             /\ inspectLastResult(storage) = JsonParse(tg.lastData)
       /\ ~HasItem(storage, LatestKey) => inspectLastResult(storage) = Null

\* a result went to sendData and the helper returns it as an object
C20_Witness ==
    /\ variant = "current"
    /\ lastEnd.path = "sent"
    /\ tg.sendCount > 0
    /\ inspectLastResult(storage).t = "obj"
    /\ Get(inspectLastResult(storage), "sessionId") = config.sessionId

\* C21: after a sendResult has called the host's sendData with a string,
\* inspectTelegramData() returns the parse of the string sent last; it
\* returns null only when nothing has been sent yet.
C21_InspectTelegramData ==
    [][ends' # ends /\ tg'.sendCount > tg.sendCount =>
          inspectTelegramData(storage') = JsonParse(tg'.lastData)]_vars

GameResultPrefix == <<"g", "a", "m", "e", "_", "r", "e", "s", "u", "l", "t", "_">>

\* the keys the framework and the mock write: game_result_<sessionId>,
\* game_result_latest, game_result_error_<timestamp>, last_send_time,
\* mock_telegram_user
IsWrittenKey(k) ==
    \/ k \in {LastSendTimeKey, MockUserKey}
    \/ /\ Len(k.body) >= Len(GameResultPrefix)
       /\ SubSeq(k.body, 1, Len(GameResultPrefix)) = GameResultPrefix

\* C22: after clearGameData() local storage holds no key the framework or
\* the mock wrote, and every key containing none of 'game_result',
\* 'telegram_sendData', 'mock_telegram' is left as it was.
C22_ClearGameData ==
    [][clearGameData =>
          /\ \A e \in storage' : ~IsWrittenKey(e.key)
          /\ \A e \in storage : ~IsGameKey(e.key) => e \in storage']_vars

SecondsAlive == (now - PageLoadTime) \div 1000

\* C24: after end(), state.timeElapsed is a non-negative whole number of
\* seconds, equal to floor((endTime - startTime) / 1000) for the most
\* recent start(), and never more than the seconds the instance has
\* existed, also when end() was called without a start().
C24_TimeElapsed ==
    state.status \in {"completed", "failed"} =>
       /\ state.timeElapsed \in Nat
       /\ state.startTime # Null =>
             state.timeElapsed =
                (state.endTime.n - state.startTime.n) \div 1000
       /\ state.timeElapsed <= SecondsAlive

\* C25: for the mock's MainButton and BackButton, after any sequence of
\* their API calls the button element exists exactly when isVisible is
\* true and there is at most one per button; a click runs the callback
\* only when one is registered (for MainButton: and isActive is true), and
\* after offClick none is registered.
C25_MockButtons ==
    /\ [](\A name \in Buttons :
             /\ mock[name].elements <= 1
             /\ (mock[name].elements = 1) <=> mock[name].isVisible)
    /\ [][/\ Click =>
               \A name \in Buttons :
                  (mock'.lastClick[1] = name /\ mock'.lastClick[2] # "none")
                  => /\ mock[name]._callback # "null"
                     /\ mock'.lastClick[2] = mock[name]._callback
                     /\ name = "MainButton" => mock.MainButton.isActive
          /\ offClick =>
               \E name \in Buttons :
                  /\ mock'[name]._callback = "null"
                  /\ ButtonClicked(name, mock'[name]) = "none"]_vars

\* a visible, active MainButton was clicked and ran its callback, and the
\* game's back button is rendered
C25_Witness ==
    /\ mock.lastClick = <<"MainButton", "cb1">>
    /\ mock.MainButton.isVisible
    /\ mock.MainButton.elements = 1
    /\ mock.BackButton._callback = "handleExit"
    /\ mock.BackButton.elements = 1

\* how often callback cb is registered in a listener list
Registrations(listeners, cb) ==
    Cardinality({i \in 1..Len(listeners) : listeners[i] = cb})

=============================================================================
